---- MODULE Spec2Model ----
(***************************************************************************)
(* Camera controllers of gltf-viewer (src/controls.rs): OrbitControls and  *)
(* CameraControls.                                                         *)
(*                                                                         *)
(* Number representation.  The code computes in f32.  The model computes   *)
(* exactly, on a finite lattice of angles:                                 *)
(*   - an angle is [q, e]: q quarter turns (PI/2) plus e times the pole    *)
(*     margin epsilon of update();                                         *)
(*   - a length is a Num <<a, s, c>> standing for                          *)
(*         a + s*sin(epsilon) + c*cos(epsilon)     (hundredths),           *)
(*     which is closed under the sines and cosines of lattice angles;      *)
(*   - fovy is in tenths of a degree.                                      *)
(* f32 rounding noise, NaN and infinities are outside the model.           *)
(***************************************************************************)
EXTENDS Integers, Sequences, FiniteSets, TLC

(***************************************************************************)
(* Scalars of the form a + s*sin(epsilon) + c*cos(epsilon).                *)
(***************************************************************************)
Num(a) == <<a, 0, 0>>

NumZero == Num(0)

NumAdd(m, n) == <<m[1] + n[1], m[2] + n[2], m[3] + n[3]>>

NumSub(m, n) == <<m[1] - n[1], m[2] - n[2], m[3] - n[3]>>

NumScale(k, n) == <<k * n[1], k * n[2], k * n[3]>>

\* exact quotient of a lattice length by an integer length
NumDiv(n, k) == <<n[1] \div k, n[2] \div k, n[3] \div k>>

Sgn(i) == IF i > 0 THEN 1 ELSE IF i < 0 THEN -1 ELSE 0

\* sign of a + s*sin(epsilon) + c*cos(epsilon) for epsilon = 0.0001:
\* cos(epsilon) = 1 - 5e-9 and sin(epsilon) = 1e-4, so a + c decides,
\* then s, then the deficit of c.
NumSign(n) ==
    IF n[1] + n[3] # 0 THEN Sgn(n[1] + n[3])
    ELSE IF n[2] # 0 THEN Sgn(n[2])
    ELSE Sgn(-n[3])

NumLess(m, n) == NumSign(NumSub(m, n)) < 0

\* num_traits::clamp on scalars
ClampNum(x, lo, hi) == IF NumLess(x, lo) THEN lo ELSE IF NumLess(hi, x) THEN hi ELSE x

\* truncating integer quotient (the sign of the result follows the operands)
Quot(a, b) == Sgn(a) * Sgn(b) * ((Sgn(a) * a) \div (Sgn(b) * b))

RECURSIVE Heron(_, _)
Heron(n, x) ==
    LET y == (x + n \div x) \div 2
    IN  IF y >= x THEN x ELSE Heron(n, y)

\* f32::sqrt, rounded down: Heron's iteration from a start above the root
ISqrt(n) ==
    IF n = 0 THEN 0
    ELSE IF n < 1048576 THEN Heron(n, 1024)
    ELSE Heron(n, 46340)

(***************************************************************************)
(* Vectors.                                                                *)
(***************************************************************************)
Vec3(x, y, z) == [x |-> x, y |-> y, z |-> z]

Vector3Zero == Vec3(NumZero, NumZero, NumZero)

VAdd(u, v) == Vec3(NumAdd(u.x, v.x), NumAdd(u.y, v.y), NumAdd(u.z, v.z))

VSub(u, v) == Vec3(NumSub(u.x, v.x), NumSub(u.y, v.y), NumSub(u.z, v.z))

Vec2(x, y) == [x |-> x, y |-> y]

Vector2Zero == Vec2(0, 0)

V2Sub(u, v) == Vec2(u.x - v.x, u.y - v.y)

\* the square of a Num over the basis 1, sin, cos, sin*cos, cos^2
\* (sin^2 is rewritten as 1 - cos^2)
NumSq(n) ==
    <<n[1] * n[1] + n[2] * n[2], 2 * n[1] * n[2], 2 * n[1] * n[3],
      2 * n[2] * n[3], n[3] * n[3] - n[2] * n[2]>>

Magnitude2(v) ==
    LET a == NumSq(v.x)
        b == NumSq(v.y)
        c == NumSq(v.z)
    IN  [i \in 1..5 |-> a[i] + b[i] + c[i]]

\* cgmath magnitude(): sqrt(x^2 + y^2 + z^2); on the lattice the sum of
\* squares is a plain number (OnLattice checks it)
Magnitude(v) == ISqrt(Magnitude2(v)[1])

(***************************************************************************)
(* Angles.                                                                 *)
(***************************************************************************)
Ang(q, e) == [q |-> q, e |-> e]

AngZero == Ang(0, 0)

PI == Ang(2, 0)

AngAdd(a, b) == Ang(a.q + b.q, a.e + b.e)

AngSub(a, b) == Ang(a.q - b.q, a.e - b.e)

AngLess(a, b) == a.q < b.q \/ (a.q = b.q /\ a.e < b.e)

\* num_traits::clamp on angles
ClampAng(x, lo, hi) == IF AngLess(x, lo) THEN lo ELSE IF AngLess(hi, x) THEN hi ELSE x

\* sine and cosine of q quarter turns
SinQ(q) == CASE q % 4 = 0 -> 0 [] q % 4 = 1 -> 1 [] q % 4 = 2 -> 0 [] q % 4 = 3 -> -1

CosQ(q) == SinQ(q + 1)

\* sin(q*PI/2 + e*epsilon) and cos(q*PI/2 + e*epsilon) for e in -1..1, by the
\* addition theorems
Sin(a) ==
    CASE a.e = 0 -> Num(SinQ(a.q))
      [] a.e \in {-1, 1} -> <<0, a.e * CosQ(a.q), SinQ(a.q)>>

Cos(a) ==
    CASE a.e = 0 -> Num(CosQ(a.q))
      [] a.e \in {-1, 1} -> <<0, -a.e * SinQ(a.q), CosQ(a.q)>>

\* f32::acos on the cosines of the lattice angles of [0, PI]
Acos(c) ==
    CASE c = <<1, 0, 0>> -> Ang(0, 0)
      [] c = <<0, 0, 1>> -> Ang(0, 1)
      [] c = <<0, 1, 0>> -> Ang(1, -1)
      [] c = <<0, 0, 0>> -> Ang(1, 0)
      [] c = <<0, -1, 0>> -> Ang(1, 1)
      [] c = <<0, 0, -1>> -> Ang(2, -1)
      [] c = <<-1, 0, 0>> -> Ang(2, 0)

\* f32::atan2(x, z) on the lattice: the angle of the point (z, x), in (-PI, PI]
Atan2(x, z) ==
    LET sx == NumSign(x)
        sz == NumSign(z)
    IN  CASE sx = 0 /\ sz >= 0 -> Ang(0, 0)
          [] sx > 0 /\ sz = 0 -> Ang(1, 0)
          [] sx = 0 /\ sz < 0 -> Ang(2, 0)
          [] sx < 0 /\ sz = 0 -> Ang(-1, 0)

(***************************************************************************)
(* Spherical coordinates (render::math::Spherical).                        *)
(***************************************************************************)
Spherical(radius, phi, theta) == [radius |-> radius, phi |-> phi, theta |-> theta]

SphericalDefault == Spherical(0, AngZero, AngZero)

\* radius = |v|; theta = atan2(v.x, v.z); phi = acos(clamp(v.y / radius, -1, 1));
\* the zero vector gives radius 0 and both angles 0
FromVec3(v) ==
    LET radius == Magnitude(v)
    IN  IF radius = 0 THEN Spherical(0, AngZero, AngZero)
        ELSE Spherical(radius,
                       Acos(ClampNum(NumDiv(v.y, radius), Num(-1), Num(1))),
                       Atan2(v.x, v.z))

\* x = radius sin(phi) sin(theta); y = radius cos(phi); z = radius sin(phi) cos(theta)
ToVec3(s) ==
    Vec3(NumScale(s.radius * SinQ(s.theta.q), Sin(s.phi)),
         NumScale(s.radius, Cos(s.phi)),
         NumScale(s.radius * CosQ(s.theta.q), Sin(s.phi)))

(***************************************************************************)
(* Camera (render::Camera): fovy in tenths of a degree, the projection     *)
(* mode, and the cached projection matrix, held as the parameters it was   *)
(* computed from.                                                          *)
(***************************************************************************)
ZOOM_SENSITIVITY == 1

ZOOM == 450

MIN_ZOOM == 10

MAZ_ZOOM == 1700

Projection(fovy, perspective) == [fovy |-> fovy, perspective |-> perspective]

Camera(fovy, perspective, projection_matrix) ==
    [fovy |-> fovy, perspective |-> perspective, projection_matrix |-> projection_matrix]

UpdateProjectionMatrix(c) ==
    [c EXCEPT !.projection_matrix = Projection(c.fovy, c.perspective)]

CameraDefault == UpdateProjectionMatrix(Camera(ZOOM, TRUE, Projection(0, TRUE)))

IsPerspective(c) == c.perspective

\* 1000 * tan(d / 2) for d = 1..170, the argument taken in radians
TanTable ==
    <<
      546, 1557, 14101, -2185, -747, -143, 375, 1158, 4637, -3381,
      -996, -291, 220, 871, 2706, -6800, -1326, -452, 75, 648,
      1850, -225951, -1811, -636, -66, 463, 1351, 7245, -2634, -856,
      -211, 301, 1013, 3494, -4446, -1137, -365, 152, 761, 2237,
      -12529, -1527, -535, 9, 558, 1588, 16123, -2135, -733, -134,
      385, 1179, 4845, -3274, -978, -281, 230, 887, 2781, -6405,
      -1302, -442, 84, 661, 1890, -75313, -1774, -623, -58, 474,
      1376, 7750, -2565, -841, -202, 310, 1031, 3615, -4269, -1117,
      -355, 161, 775, 2291, -11270, -1498, -524, 18, 570, 1620,
      18817, -2087, -720, -125, 395, 1200, 5071, -3173, -961, -272,
      239, 903, 2861, -6053, -1279, -431, 93, 674, 1931, -45183,
      -1738, -611, -49, 485, 1402, 8331, -2500, -826, -193, 320,
      1050, 3743, -4105, -1098, -345, 170, 789, 2348, -10240, -1470,
      -512, 27, 581, 1652, 22588, -2040, -706, -116, 405, 1222,
      5319, -3078, -944, -262, 248, 919, 2944, -5737, -1256, -421,
      102, 687, 1973, -32269, -1703, -599, -40, 496, 1429, 9004,
      -2437, -811, -183, 330, 1069, 3881, -3953, -1078, -335, 179
    >>

\* (fovy / 2.0).tan(), in thousandths
TanHalf(fovy) == TanTable[fovy \div 10]

\* std::f32::consts::PI in thousandths
PiMilli == 3142

(***************************************************************************)
(* OrbitControls.  The controller is one record; every method is an        *)
(* operator from the record before the call to the record after it.        *)
(* Option<Vector2> is a sequence of length 0 (None) or 1 (Some).           *)
(* panicked marks a call that ended in a panic, with the fields as they    *)
(* were when it was raised.                                                *)
(***************************************************************************)
None == <<>>

Some(v) == <<v>>

OrbitControlsNew(position, screen_width, screen_height) ==
    [camera           |-> CameraDefault,
     position         |-> position,
     target           |-> Vector3Zero,
     state            |-> "None",
     spherical        |-> SphericalDefault,
     spherical_delta  |-> SphericalDefault,
     scale            |-> 1,
     pan_offset       |-> Vector3Zero,
     rotate_start     |-> None,
     rotate_end       |-> Vector2Zero,
     pan_start        |-> None,
     pan_end          |-> Vector2Zero,
     screen_width     |-> screen_width,
     screen_height    |-> screen_height,
     offset           |-> Vector3Zero,
     panicked         |-> FALSE]

\* let epsilon = 0.0001
epsilon == Ang(0, 1)

\* clamp(phi, 0, PI): the pole margin forgotten
restrict_phi_without_margin(phi) == ClampAng(phi, AngZero, PI)

\* restrict phi to be between desired limits
restrict_phi(phi) == ClampAng(phi, epsilon, AngSub(PI, epsilon))

\* update() without its last statement (pan_offset is not cleared)
update_keeps_pan_offset(c) ==
    LET offset0 == VSub(c.position, c.target)
        from    == FromVec3(offset0)
        moved   == [from EXCEPT !.theta = AngAdd(@, c.spherical_delta.theta),
                                !.phi = AngAdd(@, c.spherical_delta.phi)]
        clamped == [moved EXCEPT !.phi = restrict_phi(@)]
        scaled  == [clamped EXCEPT !.radius = @ * c.scale]
        target  == VAdd(c.target, c.pan_offset)
        offset  == ToVec3(scaled)
    IN  [c EXCEPT !.spherical = scaled,
                  !.target = target,
                  !.offset = offset,
                  !.position = VAdd(target, offset),
                  !.spherical_delta = Spherical(0, AngZero, AngZero),
                  !.scale = 1]

\* update that adds the deltas to the stored spherical instead of deriving
\* it from position - target
update_from_stale_spherical(c) ==
    LET from    == c.spherical
        moved   == [from EXCEPT !.theta = AngAdd(@, c.spherical_delta.theta),
                                !.phi = AngAdd(@, c.spherical_delta.phi)]
        clamped == [moved EXCEPT !.phi = restrict_phi(@)]
        scaled  == [clamped EXCEPT !.radius = @ * c.scale]
        target  == VAdd(c.target, c.pan_offset)
        offset  == ToVec3(scaled)
    IN  [c EXCEPT !.spherical = scaled, !.target = target, !.offset = offset,
                  !.position = VAdd(target, offset),
                  !.spherical_delta = Spherical(0, AngZero, AngZero),
                  !.scale = 1, !.pan_offset = Vector3Zero]

\* update that pans the camera but leaves the pivot where it was
update_pans_camera_only(c) ==
    LET offset0 == VSub(c.position, c.target)
        from    == FromVec3(offset0)
        moved   == [from EXCEPT !.theta = AngAdd(@, c.spherical_delta.theta),
                                !.phi = AngAdd(@, c.spherical_delta.phi)]
        clamped == [moved EXCEPT !.phi = restrict_phi(@)]
        scaled  == [clamped EXCEPT !.radius = @ * c.scale]
        offset  == ToVec3(scaled)
    IN  [c EXCEPT !.spherical = scaled, !.offset = offset,
                  !.position = VAdd(VAdd(c.target, c.pan_offset), offset),
                  !.spherical_delta = Spherical(0, AngZero, AngZero),
                  !.scale = 1, !.pan_offset = Vector3Zero]

\* update that places position relative to the target before the pan
update_from_old_target(c) ==
    LET offset0 == VSub(c.position, c.target)
        from    == FromVec3(offset0)
        moved   == [from EXCEPT !.theta = AngAdd(@, c.spherical_delta.theta),
                                !.phi = AngAdd(@, c.spherical_delta.phi)]
        clamped == [moved EXCEPT !.phi = restrict_phi(@)]
        scaled  == [clamped EXCEPT !.radius = @ * c.scale]
        target  == VAdd(c.target, c.pan_offset)
        offset  == ToVec3(scaled)
    IN  [c EXCEPT !.spherical = scaled, !.target = target, !.offset = offset,
                  !.position = VAdd(c.target, offset),
                  !.spherical_delta = Spherical(0, AngZero, AngZero),
                  !.scale = 1, !.pan_offset = Vector3Zero]

update(c) ==
    LET offset0 == VSub(c.position, c.target)
        from    == FromVec3(offset0)
        moved   == [from EXCEPT !.theta = AngAdd(@, c.spherical_delta.theta),
                                !.phi = AngAdd(@, c.spherical_delta.phi)]
        clamped == [moved EXCEPT !.phi = restrict_phi(@)]
        scaled  == [clamped EXCEPT !.radius = @ * c.scale]
        target  == VAdd(c.target, c.pan_offset)
        offset  == ToVec3(scaled)
    IN  [c EXCEPT !.spherical = scaled,
                  !.target = target,
                  !.offset = offset,
                  !.position = VAdd(target, offset),
                  !.spherical_delta = Spherical(0, AngZero, AngZero),
                  !.scale = 1,
                  !.pan_offset = Vector3Zero]

rotate_left(c, angle) ==
    [c EXCEPT !.spherical_delta.theta = AngSub(@, angle)]

rotate_up(c, angle) ==
    [c EXCEPT !.spherical_delta.phi = AngSub(@, angle)]

\* 2.0 * PI * delta / size * rotate_speed, with rotate_speed = 1.0
DragAngle(delta, size) == Ang((2 * PI.q * delta) \div size, 0)

\* rotate_delta with a missing anchor read as the origin
RotateDelta_from_origin(c) ==
    IF c.rotate_start # None
    THEN V2Sub(c.rotate_end, c.rotate_start[1])
    ELSE c.rotate_end

\* rotate_delta, once rotate_end holds the pointer
RotateDelta(c) ==
    IF c.rotate_start # None
    THEN V2Sub(c.rotate_end, c.rotate_start[1])
    ELSE Vector2Zero

\* handle_mouse_move_rotate that keeps the anchor of the first sample
handle_mouse_move_rotate_keeps_anchor(c, x, y) ==
    LET c1 == [c EXCEPT !.rotate_end = Vec2(x, y)]
        rotate_delta == RotateDelta(c1)
        c2 == rotate_left(c1, DragAngle(rotate_delta.x, c1.screen_width))
        c3 == rotate_up(c2, DragAngle(rotate_delta.y, c2.screen_height))
        c4 == IF c3.rotate_start = None
              THEN [c3 EXCEPT !.rotate_start = Some(c3.rotate_end)]
              ELSE c3
    IN  update(c4)

handle_mouse_move_rotate(c, x, y) ==
    LET c1 == [c EXCEPT !.rotate_end = Vec2(x, y)]
        rotate_delta == RotateDelta(c1)
        c2 == rotate_left(c1, DragAngle(rotate_delta.x, c1.screen_width))
        c3 == rotate_up(c2, DragAngle(rotate_delta.y, c2.screen_height))
        c4 == [c3 EXCEPT !.rotate_start = Some(c3.rotate_end)]
    IN  update(c4)

\* handle_mouse_up that also ends the gesture
handle_mouse_up_resets_state(c) ==
    [c EXCEPT !.rotate_start = None, !.pan_start = None, !.state = "None"]

\* handle_mouse_up that forgets the pan anchor
handle_mouse_up_keeps_pan_start(c) ==
    [c EXCEPT !.rotate_start = None]

handle_mouse_up(c) ==
    [c EXCEPT !.rotate_start = None, !.pan_start = None]

pan_left(c, distance) ==
    [c EXCEPT !.pan_offset.x = NumSub(@, Num(distance))]

pan_up(c, distance) ==
    [c EXCEPT !.pan_offset.y = NumSub(@, Num(distance))]

\* target_distance * ((fovy / 2.0).tan() * PI / 180.0), in hundredths
TargetDistance(magnitude, fovy) ==
    Quot(magnitude * Quot(TanHalf(fovy) * PiMilli, 180), 1000000)

\* pan that ignores a non-perspective camera instead of failing
pan_silent(c, delta) ==
    IF IsPerspective(c.camera)
    THEN LET c1 == [c EXCEPT !.offset = VSub(c.position, c.target)]
             target_distance == TargetDistance(Magnitude(c1.offset), c1.camera.fovy)
             c2 == pan_left(c1, Quot(2 * delta.x * target_distance, c1.screen_height))
         IN  pan_up(c2, Quot(2 * delta.y * target_distance, c2.screen_height))
    ELSE c

pan(c, delta) ==
    IF IsPerspective(c.camera)
    THEN LET c1 == [c EXCEPT !.offset = VSub(c.position, c.target)]
             target_distance == TargetDistance(Magnitude(c1.offset), c1.camera.fovy)
             c2 == pan_left(c1, Quot(2 * delta.x * target_distance, c1.screen_height))
         IN  pan_up(c2, Quot(2 * delta.y * target_distance, c2.screen_height))
    ELSE [c EXCEPT !.panicked = TRUE]

\* pan_delta, once pan_end holds the pointer
PanDelta(c) ==
    IF c.pan_start # None
    THEN V2Sub(c.pan_end, c.pan_start[1])
    ELSE Vector2Zero

handle_mouse_move_pan(c, x, y) ==
    LET c1 == [c EXCEPT !.pan_end = Vec2(x, y)]
        pan_delta == PanDelta(c1)
        c2 == pan(c1, pan_delta)
        c3 == [c2 EXCEPT !.pan_start = Some(c2.pan_end)]
    IN  IF c2.panicked THEN c2 ELSE update(c3)

\* handle_mouse_move that runs update() when no gesture is active
handle_mouse_move_idle_updates(c, x, y) ==
    CASE c.state = "Rotating" -> handle_mouse_move_rotate(c, x, y)
      [] c.state = "Panning" -> handle_mouse_move_pan(c, x, y)
      [] c.state = "None" -> update(c)

handle_mouse_move(c, x, y) ==
    CASE c.state = "Rotating" -> handle_mouse_move_rotate(c, x, y)
      [] c.state = "Panning" -> handle_mouse_move_pan(c, x, y)
      [] c.state = "None" -> c

\* process_mouse_scroll that refreshes the camera through update()
process_mouse_scroll_updates(c, yoffset) ==
    LET scaled == yoffset * ZOOM_SENSITIVITY
        f1 == IF c.camera.fovy >= MIN_ZOOM /\ c.camera.fovy <= MAZ_ZOOM
              THEN c.camera.fovy - scaled
              ELSE c.camera.fovy
        f2 == IF f1 <= MIN_ZOOM THEN MIN_ZOOM ELSE f1
        f3 == IF f2 >= MAZ_ZOOM THEN MAZ_ZOOM ELSE f2
    IN  update([c EXCEPT !.camera = UpdateProjectionMatrix([c.camera EXCEPT !.fovy = f3])])

\* process_mouse_scroll without the upper bound test
process_mouse_scroll_no_upper(c, yoffset) ==
    LET scaled == yoffset * ZOOM_SENSITIVITY
        f1 == IF c.camera.fovy >= MIN_ZOOM /\ c.camera.fovy <= MAZ_ZOOM
              THEN c.camera.fovy - scaled
              ELSE c.camera.fovy
        f2 == IF f1 <= MIN_ZOOM THEN MIN_ZOOM ELSE f1
    IN  [c EXCEPT !.camera = UpdateProjectionMatrix([c.camera EXCEPT !.fovy = f2])]

\* process_mouse_scroll that also dollies through scale: scrolling back
\* asks update() for twice the radius
process_mouse_scroll_dolly(c, yoffset) ==
    LET scaled == yoffset * ZOOM_SENSITIVITY
        f1 == IF c.camera.fovy >= MIN_ZOOM /\ c.camera.fovy <= MAZ_ZOOM
              THEN c.camera.fovy - scaled
              ELSE c.camera.fovy
        f2 == IF f1 <= MIN_ZOOM THEN MIN_ZOOM ELSE f1
        f3 == IF f2 >= MAZ_ZOOM THEN MAZ_ZOOM ELSE f2
    IN  [c EXCEPT !.camera = UpdateProjectionMatrix([c.camera EXCEPT !.fovy = f3]),
                  !.scale = IF yoffset < 0 THEN 2 ELSE 1]

process_mouse_scroll(c, yoffset) ==
    LET scaled == yoffset * ZOOM_SENSITIVITY
        f1 == IF c.camera.fovy >= MIN_ZOOM /\ c.camera.fovy <= MAZ_ZOOM
              THEN c.camera.fovy - scaled
              ELSE c.camera.fovy
        f2 == IF f1 <= MIN_ZOOM THEN MIN_ZOOM ELSE f1
        f3 == IF f2 >= MAZ_ZOOM THEN MAZ_ZOOM ELSE f2
    IN  [c EXCEPT !.camera = UpdateProjectionMatrix([c.camera EXCEPT !.fovy = f3])]

\* the snapshot the renderer reads (view_matrix is look_at(position, target, +Y))
camera_params(c) ==
    [position |-> c.position,
     view_matrix |-> [eye |-> c.position, center |-> c.target],
     projection_matrix |-> c.camera.projection_matrix]

(***************************************************************************)
(* CameraControls (the free-fly controller).  yaw and pitch are in tenths  *)
(* of a degree, positions and directions in thousandths.                   *)
(***************************************************************************)
YAW == -900

PITCH == 0

SENSITIVTY == 1

\* 1000 * sin(d degrees) for d = 0..90
SinTable ==
    <<
      0, 17, 35, 52, 70, 87, 105, 122, 139, 156, 174, 191, 208,
      225, 242, 259, 276, 292, 309, 326, 342, 358, 375, 391, 407, 423,
      438, 454, 469, 485, 500, 515, 530, 545, 559, 574, 588, 602, 616,
      629, 643, 656, 669, 682, 695, 707, 719, 731, 743, 755, 766, 777,
      788, 799, 809, 819, 829, 839, 848, 857, 866, 875, 883, 891, 899,
      906, 914, 921, 927, 934, 940, 946, 951, 956, 961, 966, 970, 974,
      978, 982, 985, 988, 990, 993, 995, 996, 998, 999, 999, 1000, 1000
    >>

RECURSIVE SinDeg(_)
SinDeg(d) ==
    IF d < 0 THEN -SinDeg(-d)
    ELSE IF d >= 360 THEN SinDeg(d % 360)
    ELSE IF d > 180 THEN -SinDeg(d - 180)
    ELSE IF d > 90 THEN SinDeg(180 - d)
    ELSE SinTable[d + 1]

CosDeg(d) == SinDeg(d + 90)

\* the front vector of update_camera_vectors, from yaw and pitch
FrontOf(yaw, pitch) ==
    Vec3(Quot(CosDeg(yaw \div 10) * CosDeg(pitch \div 10), 1000),
         SinDeg(pitch \div 10),
         Quot(SinDeg(yaw \div 10) * CosDeg(pitch \div 10), 1000))

\* Matrix4 * Vector4, the matrix given by its rows
MatVec(m, v) ==
    [i \in 1..4 |-> m[i][1] * v[1] + m[i][2] * v[2] + m[i][3] * v[3] + m[i][4] * v[4]]

update_camera_vectors(c) ==
    LET c1 == IF c.center # None
              THEN [c EXCEPT !.front = Vec3(c.center[1].x - c.position.x,
                                            c.center[1].y - c.position.y,
                                            c.center[1].z - c.position.z),
                             !.center = None]
              ELSE c
    IN  [c1 EXCEPT !.front = FrontOf(c1.yaw, c1.pitch)]

CameraControlsDefault ==
    update_camera_vectors(
        [position          |-> Vec3(0, 0, 0),
         front             |-> Vec3(0, 0, -1000),
         center            |-> None,
         yaw               |-> YAW,
         pitch             |-> PITCH,
         mouse_sensitivity |-> SENSITIVTY,
         camera            |-> CameraDefault])

\* process_mouse_movement that constrains the pitch from above only
process_mouse_movement_upper_only(c, xoffset, yoffset, constrain_pitch) ==
    LET dx == xoffset * c.mouse_sensitivity
        dy == yoffset * c.mouse_sensitivity
        c1 == [c EXCEPT !.yaw = @ + dx, !.pitch = @ + dy]
        p1 == IF constrain_pitch /\ c1.pitch > 890 THEN 890 ELSE c1.pitch
    IN  update_camera_vectors([c1 EXCEPT !.pitch = p1])

process_mouse_movement(c, xoffset, yoffset, constrain_pitch) ==
    LET dx == xoffset * c.mouse_sensitivity
        dy == yoffset * c.mouse_sensitivity
        c1 == [c EXCEPT !.yaw = @ + dx, !.pitch = @ + dy]
        p1 == IF constrain_pitch /\ c1.pitch > 890 THEN 890 ELSE c1.pitch
        p2 == IF constrain_pitch /\ p1 < -890 THEN -890 ELSE p1
    IN  update_camera_vectors([c1 EXCEPT !.pitch = p2])

set_camera(c, camera, transform) ==
    LET pos == MatVec(transform, <<0, 0, 0, 0>>)
        look_at == MatVec(transform, <<0, 0, -1000, 0>>)
        c1 == [c EXCEPT !.position = Vec3(pos[1], pos[2], pos[3]),
                        !.center = Some(Vec3(look_at[1], look_at[2], look_at[3]))]
        cloned == [camera EXCEPT !.fovy = c1.camera.fovy]
    IN  update_camera_vectors([c1 EXCEPT !.camera = cloned])

\* CameraControls::camera_params / view_matrix: look_at(position, center) when
\* center is set, look_at(position, position + front) otherwise
fly_camera_params(c) ==
    [position |-> c.position,
     view_matrix |-> [eye |-> c.position,
                      center |-> IF c.center # None THEN c.center[1]
                                 ELSE Vec3(c.position.x + c.front.x,
                                           c.position.y + c.front.y,
                                           c.position.z + c.front.z)],
     projection_matrix |-> c.camera.projection_matrix]

(***************************************************************************)
(* The state machine.                                                      *)
(*   orbit : the OrbitControls value                                       *)
(*   fly   : the CameraControls value                                      *)
(*   npan  : the number of calls so far that added to pan_offset           *)
(*   proto : where the caller is in its drag protocol (DragSpec only)      *)
(*   stray : a rotate/pan handler ran after the last handle_mouse_up and   *)
(*           outside a drag (DragSpec only)                                *)
(***************************************************************************)
VARIABLES orbit, fly, npan, proto, stray

vars == <<orbit, fly, npan, proto, stray>>

\* the inputs the model draws from
MaxPans == 1

MaxTurn == 1800

InitPositions ==
    {Vec3(Num(0), Num(0), Num(500)), Vec3(Num(0), Num(500), Num(0)),
     Vec3(Num(0), Num(-500), Num(0)), Vector3Zero}

ScreenSizes == {<<800, 600>>}

Pointers == {Vec2(0, 0), Vec2(200, 150)}

ScrollOffsets == {-2000, 1250, 2000}

PanDistances == {100}

NavStates == {"None", "Rotating", "Panning"}

Cameras == {UpdateProjectionMatrix(Camera(450, TRUE, Projection(0, TRUE))),
            UpdateProjectionMatrix(Camera(450, FALSE, Projection(0, TRUE)))}

FlyCameras == {UpdateProjectionMatrix(Camera(600, TRUE, Projection(0, TRUE))),
               UpdateProjectionMatrix(Camera(450, FALSE, Projection(0, TRUE)))}

Transforms ==
    {<<<<1, 0, 0, 0>>, <<0, 1, 0, 0>>, <<0, 0, 1, 0>>, <<0, 0, 0, 1>>>>,
     <<<<1, 0, 0, 1000>>, <<0, 1, 0, 2000>>, <<0, 0, 1, 3000>>, <<0, 0, 0, 1>>>>,
     <<<<0, 0, 1, 0>>, <<0, 1, 0, 500>>, <<-1, 0, 0, 0>>, <<0, 0, 0, 1>>>>}

LookOffsets == {-900, -100, 100, 900}

Init ==
    /\ \E p \in InitPositions, s \in ScreenSizes : orbit = OrbitControlsNew(p, s[1], s[2])
    /\ fly = CameraControlsDefault
    /\ npan = 0
    /\ proto = "idle"
    /\ stray = FALSE

\* a mouse move that reaches pan() with a non-zero pointer delta
AddsPan(c, p) ==
    /\ c.state = "Panning"
    /\ c.pan_start # None
    /\ c.pan_start[1] # p

Dispatched(c) == c.state \in {"Rotating", "Panning"}

\* ---- the operations of OrbitControls, as its caller may invoke them ----
DoSetState(s) ==
    /\ ~orbit.panicked
    /\ orbit' = [orbit EXCEPT !.state = s]
    /\ UNCHANGED <<fly, npan>>

DoSetCamera(cam) ==
    /\ ~orbit.panicked
    /\ orbit' = [orbit EXCEPT !.camera = cam]
    /\ UNCHANGED <<fly, npan>>

DoMouseMove(p) ==
    /\ ~orbit.panicked
    /\ npan' = IF AddsPan(orbit, p) THEN npan + 1 ELSE npan
    /\ npan' <= MaxPans
    /\ orbit' = handle_mouse_move(orbit, p.x, p.y)
    /\ UNCHANGED fly

DoMouseUp ==
    /\ ~orbit.panicked
    /\ orbit' = handle_mouse_up(orbit)
    /\ UNCHANGED <<fly, npan>>

DoMouseScroll(yoffset) ==
    /\ ~orbit.panicked
    /\ orbit' = process_mouse_scroll(orbit, yoffset)
    /\ UNCHANGED <<fly, npan>>

DoPanLeft(d) ==
    /\ ~orbit.panicked
    /\ npan < MaxPans
    /\ npan' = npan + 1
    /\ orbit' = pan_left(orbit, d)
    /\ UNCHANGED fly

DoPanUp(d) ==
    /\ ~orbit.panicked
    /\ npan < MaxPans
    /\ npan' = npan + 1
    /\ orbit' = pan_up(orbit, d)
    /\ UNCHANGED fly

\* ---- Spec: OrbitControls under an unconstrained caller ----
SetState == \E s \in NavStates : DoSetState(s) /\ UNCHANGED <<proto, stray>>

SetCamera == \E cam \in Cameras : DoSetCamera(cam) /\ UNCHANGED <<proto, stray>>

MouseMove == \E p \in Pointers : DoMouseMove(p) /\ UNCHANGED <<proto, stray>>

MouseUp == DoMouseUp /\ UNCHANGED <<proto, stray>>

MouseScroll == \E y \in ScrollOffsets : DoMouseScroll(y) /\ UNCHANGED <<proto, stray>>

PanLeft == \E d \in PanDistances : DoPanLeft(d) /\ UNCHANGED <<proto, stray>>

PanUp == \E d \in PanDistances : DoPanUp(d) /\ UNCHANGED <<proto, stray>>

Next ==
    \/ SetState
    \/ SetCamera
    \/ MouseMove
    \/ MouseUp
    \/ MouseScroll
    \/ PanLeft
    \/ PanUp

Spec == Init /\ [][Next]_vars

\* ---- DragSpec: the caller ends every drag by exactly one handle_mouse_up ----
\* proto: "idle" (no drag yet), "fresh" (state set, no move handled yet),
\* "moving" (a move was handled), "ended" (handle_mouse_up delivered)
DragBegin ==
    \E s \in {"Rotating", "Panning"} :
        /\ proto \in {"idle", "ended"}
        /\ DoSetState(s)
        /\ proto' = "fresh"
        /\ UNCHANGED stray

DragIdle ==
    /\ DoSetState("None")
    /\ UNCHANGED <<proto, stray>>

DragMove ==
    \E p \in Pointers :
        /\ DoMouseMove(p)
        /\ proto' = IF Dispatched(orbit) /\ proto = "fresh" THEN "moving" ELSE proto
        /\ stray' = (stray \/ (Dispatched(orbit) /\ proto \in {"idle", "ended"}))

DragEnd ==
    /\ proto \in {"fresh", "moving"}
    /\ DoMouseUp
    /\ proto' = "ended"
    /\ stray' = FALSE

DragNext ==
    \/ DragBegin
    \/ DragIdle
    \/ DragMove
    \/ DragEnd
    \/ SetCamera

DragSpec == Init /\ [][DragNext]_vars

\* ---- FlySpec: CameraControls ----
FlySetCamera ==
    \E cam \in FlyCameras, t \in Transforms :
        /\ fly' = set_camera(fly, cam, t)
        /\ UNCHANGED <<orbit, npan, proto, stray>>

FlyMouseMovement ==
    \E x \in LookOffsets, y \in LookOffsets, constrain_pitch \in BOOLEAN :
        /\ fly' = process_mouse_movement(fly, x, y, constrain_pitch)
        /\ fly'.yaw \in -MaxTurn..MaxTurn
        /\ fly'.pitch \in -MaxTurn..MaxTurn
        /\ UNCHANGED <<orbit, npan, proto, stray>>

FlyNext ==
    \/ FlySetCamera
    \/ FlyMouseMovement

FlySpec == Init /\ [][FlyNext]_vars

(***************************************************************************)
(* Sanity of the number representation: every offset the controller holds *)
(* lies on the lattice (its squared length is a plain perfect square), and *)
(* fovy is a whole number of degrees, so the tables are read exactly.      *)
(***************************************************************************)
OnLattice ==
    LET m == Magnitude2(VSub(orbit.position, orbit.target))
    IN  /\ m[2] = 0 /\ m[3] = 0 /\ m[4] = 0 /\ m[5] = 0
        /\ Magnitude(VSub(orbit.position, orbit.target))
             * Magnitude(VSub(orbit.position, orbit.target)) = m[1]
        /\ orbit.camera.fovy % 10 = 0
        /\ ToVec3(FromVec3(VSub(orbit.position, orbit.target)))
             = VSub(orbit.position, orbit.target)
           \/ FromVec3(VSub(orbit.position, orbit.target)).phi \in {AngZero, PI}

(***************************************************************************)
(* Claims.  A claim about what an operation does is stated on the result   *)
(* of the operation applied to the reachable state, for every input of     *)
(* the sample sets below.                                                  *)
(***************************************************************************)
\* accumulator contents at the entry of update(): spherical_delta, pan_offset, scale
AccumulatorSamples ==
    {<<Spherical(0, AngZero, AngZero), Vector3Zero, 1>>,
     <<Spherical(3, Ang(-2, 0), Ang(1, 0)), Vec3(Num(-100), Num(7), Num(-9)), 2>>,
     <<Spherical(0, Ang(1, 0), Ang(-3, 0)), Vec3(Num(0), Num(40), Num(0)), 1>>}

AccumulatorsReset(c) ==
    /\ c.spherical_delta = Spherical(0, AngZero, AngZero)
    /\ c.pan_offset = Vector3Zero
    /\ c.scale = 1

\* C1: after update() has run, whatever the accumulators held before it,
\* spherical_delta is (0,0,0), pan_offset is the zero vector and scale is 1;
\* so it is after every handle_mouse_move in state Rotating or Panning that
\* returns.
C1_AccumulatorReset ==
    /\ \A a \in AccumulatorSamples :
          AccumulatorsReset(update([orbit EXCEPT !.spherical_delta = a[1],
                                                 !.pan_offset = a[2],
                                                 !.scale = a[3]]))
    /\ \A p \in Pointers :
          LET c == handle_mouse_move(orbit, p.x, p.y)
          IN  Dispatched(orbit) /\ ~c.panicked => AccumulatorsReset(c)

\* a pan drag has moved the target (its pan_offset was committed and cleared)
\* and a rotate drag has turned the camera
C1_Witness ==
    /\ orbit.pan_start # None
    /\ orbit.rotate_start # None
    /\ orbit.target # Vector3Zero
    /\ orbit.spherical.theta # AngZero
    /\ AccumulatorsReset(orbit)

InPoleRange(phi) == ~AngLess(phi, Ang(0, 1)) /\ ~AngLess(Ang(2, -1), phi)

\* pointer samples far outside the screen, for drags of many half turns
FarPointers == {Vec2(0, -1500), Vec2(200, 150), Vec2(0, 0), Vec2(200, 1800)}

\* C2: whatever vertical delta a rotating mouse move carries, the polar angle
\* committed by update() lies in [epsilon, PI - epsilon], is exactly the
\* nearer bound when phi + spherical_delta.phi falls outside, and is the
\* polar angle of the new position about the new target.
C2_PoleClamp ==
    /\ orbit.spherical # SphericalDefault => InPoleRange(orbit.spherical.phi)
    /\ orbit.state = "Rotating" /\ ~orbit.panicked =>
         \A p \in FarPointers :
            LET c == handle_mouse_move(orbit, p.x, p.y)
                dy == IF orbit.rotate_start = None THEN 0
                      ELSE p.y - orbit.rotate_start[1].y
                unclamped ==
                    AngSub(FromVec3(VSub(orbit.position, orbit.target)).phi,
                           DragAngle(dy, orbit.screen_height))
            IN  /\ InPoleRange(c.spherical.phi)
                /\ AngLess(unclamped, Ang(0, 1)) => c.spherical.phi = Ang(0, 1)
                /\ AngLess(Ang(2, -1), unclamped) => c.spherical.phi = Ang(2, -1)
                /\ InPoleRange(unclamped) => c.spherical.phi = unclamped
                /\ c.spherical.radius > 0 =>
                      FromVec3(VSub(c.position, c.target)).phi = c.spherical.phi

\* a rotate drag has driven the camera against the upper pole: the committed
\* phi, and the polar angle of position, is epsilon
C2_Witness ==
    /\ orbit.rotate_start # None
    /\ orbit.spherical.radius > 0
    /\ orbit.spherical.theta # AngZero
    /\ orbit.spherical.phi = Ang(0, 1)
    /\ FromVec3(VSub(orbit.position, orbit.target)).phi = Ang(0, 1)

\* wheel offsets from one notch to far beyond the whole zoom range
ScrollSamples == {-30000, -1690, -10, 10, 1690, 30000}

\* C3: after any process_mouse_scroll fovy is within [1, 170] degrees; an
\* offset that spans the whole range leaves it at exactly 1 or exactly 170;
\* from either bound every offset of the opposite sign leaves the bound.
C3_ZoomClamp ==
    /\ orbit.camera.fovy >= 10 /\ orbit.camera.fovy <= 1700
    /\ \A y \in ScrollSamples :
          LET f == process_mouse_scroll(orbit, y).camera.fovy
          IN  /\ f >= 10 /\ f <= 1700
              /\ y >= 1690 => f = 10
              /\ y <= -1690 => f = 1700
              /\ orbit.camera.fovy = 10 /\ y < 0 => f > 10
              /\ orbit.camera.fovy = 1700 /\ y > 0 => f < 1700

\* the wheel has driven fovy to its upper bound and the projection follows it
C3_Witness ==
    /\ orbit.camera.fovy = 1700
    /\ orbit.camera.projection_matrix.fovy = 1700

\* position - target is zero, or its polar angle is within the pole margins
Settled(c) ==
    LET s == FromVec3(VSub(c.position, c.target))
    IN  s.radius = 0 \/ InPoleRange(s.phi)

FirstSample(c) ==
    \/ c.state = "Rotating" /\ c.rotate_start = None
    \/ c.state = "Panning" /\ c.pan_start = None

\* C4 as stated: a move in state Rotating with rotate_start = None, or in
\* state Panning with pan_start = None, leaves position and target unchanged
\* and records the pointer as the anchor.
C4_Original ==
    ~orbit.panicked /\ FirstSample(orbit) =>
        \A p \in Pointers :
            LET c == handle_mouse_move(orbit, p.x, p.y)
            IN  /\ c.position = orbit.position
                /\ c.target = orbit.target
                /\ orbit.state = "Rotating" => c.rotate_start = Some(p)
                /\ orbit.state = "Panning" => c.pan_start = Some(p)

\* C4 (amended): such a move (for Panning: on a perspective camera) uses a
\* zero pointer delta, so it does exactly what update() alone does and records
\* the pointer as the anchor; position and target are unchanged when no
\* pan_offset is pending and position - target is zero or has its polar angle
\* within [epsilon, PI - epsilon].
C4_ZeroDelta ==
    ~orbit.panicked =>
        \A p \in Pointers :
            LET c        == handle_mouse_move(orbit, p.x, p.y)
                rotating == orbit.state = "Rotating" /\ orbit.rotate_start = None
                panning  == orbit.state = "Panning" /\ orbit.pan_start = None
                                /\ IsPerspective(orbit.camera)
                at_rest  == orbit.pan_offset = Vector3Zero /\ Settled(orbit)
            IN  /\ rotating =>
                     /\ RotateDelta([orbit EXCEPT !.rotate_end = p]) = Vector2Zero
                     /\ c = [update(orbit) EXCEPT !.rotate_end = p,
                                                  !.rotate_start = Some(p)]
                /\ panning =>
                     /\ PanDelta([orbit EXCEPT !.pan_end = p]) = Vector2Zero
                     /\ c = [update(orbit) EXCEPT !.pan_end = p,
                                                  !.pan_start = Some(p)]
                /\ (rotating \/ panning) /\ at_rest =>
                     /\ c.position = orbit.position
                     /\ c.target = orbit.target

\* the first sample of a rotate drag, away from the origin of the screen,
\* has been handled: the anchor is recorded, update() has run, and the camera
\* is where it was constructed
C4_Witness ==
    /\ orbit.state = "Rotating"
    /\ orbit.rotate_start = Some(Vec2(200, 150))
    /\ orbit.pan_start = None
    /\ orbit.spherical = Spherical(500, Ang(1, 0), AngZero)
    /\ orbit.position = Vec3(Num(0), Num(0), Num(500))
    /\ orbit.target = Vector3Zero

\* the pointer delta a move to p would compute in the current state
FirstDelta(c, p) ==
    IF c.state = "Rotating" THEN RotateDelta([c EXCEPT !.rotate_end = p])
    ELSE PanDelta([c EXCEPT !.pan_end = p])

\* C5 as stated: when every drag is ended by exactly one handle_mouse_up
\* before the next begins, the first move of every drag computes a zero delta.
C5_Original ==
    proto = "fresh" /\ ~orbit.panicked =>
        \A p \in Pointers : FirstDelta(orbit, p) = Vector2Zero

\* C5 (amended): when every drag is ended by exactly one handle_mouse_up, and
\* no move was handled in state Rotating or Panning between that
\* handle_mouse_up and the start of the next drag, the first move of every
\* drag computes a zero delta: both anchors are None when the drag starts.
C5_FirstDeltaZero ==
    proto = "fresh" /\ ~stray /\ ~orbit.panicked =>
        /\ orbit.rotate_start = None
        /\ orbit.pan_start = None
        /\ \A p \in Pointers : FirstDelta(orbit, p) = Vector2Zero

\* a second drag (panning) has handled its first move at (0, 0) after a
\* first drag (rotating) whose last move was at (200, 150): nothing moved
C5_Witness ==
    /\ proto = "moving"
    /\ ~stray
    /\ orbit.state = "Panning"
    /\ orbit.rotate_end = Vec2(200, 150)
    /\ orbit.rotate_start = None
    /\ orbit.pan_start = Some(Vec2(0, 0))
    /\ orbit.position = Vec3(Num(0), Num(0), Num(500))
    /\ orbit.target = Vector3Zero

\* a move in state Panning on a perspective camera, with no rotation pending
PanSample(c) ==
    /\ ~c.panicked
    /\ c.state = "Panning"
    /\ IsPerspective(c.camera)
    /\ c.spherical_delta = Spherical(0, AngZero, AngZero)

\* pan_offset as pan() leaves it for a move to p, starting from pending
PanOffsetOf(c, p, pending) ==
    LET c1 == [c EXCEPT !.pan_end = p, !.pan_offset = pending]
    IN  pan(c1, PanDelta(c1)).pan_offset

\* C6 as stated: every move in state Panning (perspective camera,
\* spherical_delta zero) leaves position - target unchanged and moves both
\* points by the pan offset of that sample.
C6_Original ==
    PanSample(orbit) =>
        \A p \in Pointers :
            LET c      == handle_mouse_move(orbit, p.x, p.y)
                sample == PanOffsetOf(orbit, p, Vector3Zero)
            IN  /\ VSub(c.position, c.target) = VSub(orbit.position, orbit.target)
                /\ c.target = VAdd(orbit.target, sample)
                /\ c.position = VAdd(orbit.position, sample)

\* C6 (amended): every such move moves target by the accumulated pan_offset
\* (what pan_left/pan_up left pending plus the offset of that sample); when
\* position - target is zero or has its polar angle within
\* [epsilon, PI - epsilon], position - target is unchanged and position has
\* moved by the same vector.
C6_RigidPan ==
    PanSample(orbit) =>
        \A p \in Pointers :
            LET c     == handle_mouse_move(orbit, p.x, p.y)
                total == PanOffsetOf(orbit, p, orbit.pan_offset)
            IN  /\ total = VAdd(orbit.pan_offset, PanOffsetOf(orbit, p, Vector3Zero))
                /\ c.target = VAdd(orbit.target, total)
                /\ Settled(orbit) =>
                     /\ VSub(c.position, c.target) = VSub(orbit.position, orbit.target)
                     /\ c.position = VAdd(orbit.position, total)

\* a panning drag from (0, 0) to (200, 150) has shifted target and position
\* by the same vector, the offset between them still the constructed one
C6_Witness ==
    /\ orbit.state = "Panning"
    /\ orbit.pan_start = Some(Vec2(200, 150))
    /\ orbit.target = Vec3(Num(-2), Num(-2), Num(0))
    /\ orbit.position = Vec3(Num(-2), Num(-2), Num(500))
    /\ orbit.pan_offset = Vector3Zero

\* |position - target| squared
Radius2(c) == Magnitude2(VSub(c.position, c.target))

\* C7: no operation changes the distance |position - target|, and scale is
\* 1 before and after every operation, so update() always multiplies the
\* radius by 1.
C7_RadiusKept ==
    [][/\ orbit.scale = 1
       /\ orbit'.scale = 1
       /\ Radius2(orbit') = Radius2(orbit)]_vars

\* after rotating onto the pole clamp, panning and scrolling, the camera is
\* still 5 units from the target
C7_Witness ==
    /\ orbit.spherical.phi = epsilon
    /\ orbit.spherical.theta # AngZero
    /\ orbit.target # Vector3Zero
    /\ orbit.camera.fovy # ZOOM
    /\ Radius2(orbit) = <<250000, 0, 0, 0, 0>>
    /\ orbit.position.y = <<0, 0, 500>>

ZeroDeltas(c) ==
    /\ ~c.panicked
    /\ c.spherical_delta = Spherical(0, AngZero, AngZero)
    /\ c.pan_offset = Vector3Zero
    /\ c.scale = 1

\* C8 as stated: update() with zero accumulated deltas leaves position and
\* target unchanged for every starting position.
C8_Original ==
    ZeroDeltas(orbit) =>
        /\ update(orbit).position = orbit.position
        /\ update(orbit).target = orbit.target

\* C8 (amended): update() with zero accumulated deltas leaves target
\* unchanged, and leaves position unchanged when position - target is zero or
\* has its polar angle within [epsilon, PI - epsilon]; a position straight
\* above or below the target is moved by the first call onto the clamp bound
\* at the same distance, and is unchanged by every later call.
C8_Idempotent ==
    ZeroDeltas(orbit) =>
        LET c  == update(orbit)
            s0 == FromVec3(VSub(orbit.position, orbit.target))
        IN  /\ c.target = orbit.target
            /\ Settled(orbit) => c.position = orbit.position
            /\ ~Settled(orbit) =>
                 /\ s0.phi \in {AngZero, PI}
                 /\ c.spherical.phi = (IF s0.phi = AngZero THEN epsilon
                                       ELSE AngSub(PI, epsilon))
                 /\ c.position # orbit.position
                 /\ Radius2(c) = Radius2(orbit)
            /\ Settled(c)
            /\ update(c).position = c.position
            /\ update(c).target = c.target

\* a camera constructed straight above the target has been moved onto the
\* clamp bound by the first sample of a drag, and stays there
C8_Witness ==
    /\ orbit.state = "Rotating"
    /\ orbit.rotate_start = Some(Vec2(200, 150))
    /\ ZeroDeltas(orbit)
    /\ orbit.spherical = Spherical(500, epsilon, AngZero)
    /\ orbit.position = Vec3(Num(0), <<0, 0, 500>>, <<0, 500, 0>>)
    /\ orbit.target = Vector3Zero
    /\ update(orbit).position = orbit.position

\* C9: every move in state Panning on a non-perspective camera panics, the
\* first sample of a drag included, and at that point position, target,
\* pan_offset and pan_start are what they were before the call.
C9_OrthographicPanPanics ==
    ~orbit.panicked /\ orbit.state = "Panning" /\ ~IsPerspective(orbit.camera) =>
        \A p \in Pointers :
            LET c == handle_mouse_move(orbit, p.x, p.y)
            IN  /\ c.panicked
                /\ c.position = orbit.position
                /\ c.target = orbit.target
                /\ c.pan_offset = orbit.pan_offset
                /\ c.pan_start = orbit.pan_start

\* the first sample of a panning drag on an orthographic camera has panicked
C9_Witness ==
    /\ orbit.panicked
    /\ orbit.state = "Panning"
    /\ ~IsPerspective(orbit.camera)
    /\ orbit.pan_start = None
    /\ orbit.pan_end = Vec2(200, 150)

\* C10: for both controllers, in every reachable state the projection_matrix
\* that camera_params() returns was computed from the camera's current fovy.
C10_ProjectionCurrent ==
    /\ camera_params(orbit).projection_matrix
         = Projection(orbit.camera.fovy, orbit.camera.perspective)
    /\ fly_camera_params(fly).projection_matrix
         = Projection(fly.camera.fovy, fly.camera.perspective)

\* the image of the point (x, y, z) under the transform (w = 1)
TransformPoint(t, x, y, z) ==
    LET p == MatVec(t, <<x, y, z, 1>>)
    IN  Vec3(p[1], p[2], p[3])

\* C11: after set_camera(camera, transform), position is the image of the
\* origin point under transform, for every transform.
C11_PositionFromTransform ==
    \A cam \in FlyCameras, t \in Transforms :
        set_camera(fly, cam, t).position = TransformPoint(t, 0, 0, 0)

\* C12: after set_camera(camera, transform), view_matrix() looks toward the
\* transform-applied -Z point: center is that point, or the viewing direction
\* is the direction from the transformed origin to it.
C12_LooksAlongTransform ==
    \A cam \in FlyCameras, t \in Transforms :
        LET c      == set_camera(fly, cam, t)
            origin == TransformPoint(t, 0, 0, 0)
            minusZ == TransformPoint(t, 0, 0, -1000)
            view   == fly_camera_params(c).view_matrix
        IN  \/ c.center = Some(minusZ)
            \/ /\ view.center.x - view.eye.x = minusZ.x - origin.x
               /\ view.center.y - view.eye.y = minusZ.y - origin.y
               /\ view.center.z - view.eye.z = minusZ.z - origin.z

\* C13: handle_mouse_move in state None changes no field of the controller
\* (position, target, accumulators, anchors, rotate_end, pan_end, camera,
\* spherical), so update() has not run.
C13_IdleMoveNoOp ==
    ~orbit.panicked /\ orbit.state = "None" =>
        \A p \in Pointers : handle_mouse_move(orbit, p.x, p.y) = orbit

\* no gesture is active while an anchor and a pending pan_offset are held and
\* the stored spherical is stale: a move that ran update() would show
C13_Witness ==
    /\ orbit.state = "None"
    /\ orbit.rotate_start = Some(Vec2(200, 150))
    /\ orbit.pan_offset # Vector3Zero
    /\ update(orbit) # orbit
    /\ handle_mouse_move(orbit, 0, 0) = orbit

\* C14: handle_mouse_up sets rotate_start and pan_start to None and changes
\* nothing else, state included; when state is still Rotating or Panning the
\* next move is dispatched to the gesture with a zero delta and records its
\* anchor, and the move after that rotates or pans by its own delta.
C14_MouseUpClearsAnchorsOnly ==
    ~orbit.panicked =>
        LET u == handle_mouse_up(orbit)
        IN  /\ u = [orbit EXCEPT !.rotate_start = None, !.pan_start = None]
            /\ u.state = orbit.state
            /\ Dispatched(u) /\ (u.state = "Panning" => IsPerspective(u.camera)) =>
                 \A p \in Pointers :
                     LET m == handle_mouse_move(u, p.x, p.y)
                     IN  /\ FirstDelta(u, p) = Vector2Zero
                         /\ m.state = orbit.state
                         /\ u.state = "Rotating" => m.rotate_start = Some(p)
                         /\ u.state = "Panning" => m.pan_start = Some(p)
                         /\ \A q \in Pointers :
                                FirstDelta(m, q) = V2Sub(q, p)

\* after the handle_mouse_up of a drag, with state left at Rotating, two
\* further moves have turned the camera a quarter turn
C14_Witness ==
    /\ proto = "ended"
    /\ stray
    /\ orbit.state = "Rotating"
    /\ orbit.rotate_start = Some(Vec2(200, 150))
    /\ orbit.spherical.theta = Ang(-1, 0)
    /\ orbit.position = Vec3(<<0, -500, 0>>, <<0, 0, 500>>, Num(0))

\* C15: process_mouse_movement with constrain_pitch = true leaves pitch
\* within [-89, 89] degrees, exactly on the bound when the sum is beyond it;
\* yaw is never clamped; with constrain_pitch = false pitch is the plain sum.
C15_PitchConstraint ==
    \A x \in LookOffsets, y \in LookOffsets :
        LET on   == process_mouse_movement(fly, x, y, TRUE)
            off  == process_mouse_movement(fly, x, y, FALSE)
            yaw  == fly.yaw + x * fly.mouse_sensitivity
            sum  == fly.pitch + y * fly.mouse_sensitivity
        IN  /\ on.pitch \in -890..890
            /\ on.pitch = (IF sum > 890 THEN 890 ELSE IF sum < -890 THEN -890 ELSE sum)
            /\ on.yaw = yaw
            /\ off.yaw = yaw
            /\ off.pitch = sum

\* a constrained look has put the pitch on its lower bound (a value the
\* unclamped sums never take) while the yaw has travelled a quarter turn
C15_Witness ==
    /\ fly.pitch = -890
    /\ fly.yaw = -1800

\* the azimuth of position about target
ThetaOf(c) == FromVec3(VSub(c.position, c.target)).theta

\* equal angles modulo a full turn
SameAzimuth(a, b) == a.e = b.e /\ (a.q - b.q) % 4 = 0

DragPointers == {Vec2(0, 0), Vec2(200, 150), Vec2(600, 0)}

\* the azimuth after the samples p0, p1, p2 of a rotate drag is the azimuth
\* before the drag less 2*PI*(last.x - p0.x)/screen_width
AzimuthFollowsDrag(c) ==
    \A p0 \in DragPointers, p1 \in DragPointers, p2 \in DragPointers :
        LET c0 == handle_mouse_move(c, p0.x, p0.y)
            c1 == handle_mouse_move(c0, p1.x, p1.y)
            c2 == handle_mouse_move(c1, p2.x, p2.y)
        IN  /\ SameAzimuth(ThetaOf(c0), ThetaOf(c))
            /\ SameAzimuth(ThetaOf(c1),
                   AngSub(ThetaOf(c), DragAngle(p1.x - p0.x, c.screen_width)))
            /\ SameAzimuth(ThetaOf(c2),
                   AngSub(ThetaOf(c), DragAngle(p2.x - p0.x, c.screen_width)))

RotateDragStarts(c) ==
    /\ proto = "fresh"
    /\ ~stray
    /\ ~c.panicked
    /\ c.state = "Rotating"

\* C16 as stated: within one rotate drag the azimuth of position about
\* target changes by -2*PI*(pn.x - p0.x)/screen_width modulo 2*PI, whatever
\* the intermediate samples.
C16_Original ==
    RotateDragStarts(orbit) => AzimuthFollowsDrag(orbit)

\* C16 (amended): the same, for a position different from target.
C16_AzimuthTelescopes ==
    RotateDragStarts(orbit) /\ orbit.position # orbit.target =>
        AzimuthFollowsDrag(orbit)

\* a rotate drag in progress, with no stale anchor behind it, has turned the
\* camera a quarter turn about the target by moving the pointer from x = 200
\* back to x = 0
C16_Witness ==
    /\ proto = "moving"
    /\ ~stray
    /\ orbit.state = "Rotating"
    /\ orbit.rotate_start = Some(Vec2(0, 0))
    /\ ThetaOf(orbit) = Ang(1, 0)
    /\ Radius2(orbit) = <<250000, 0, 0, 0, 0>>

\* 1000 * tan(d / 2 degrees) for d = 1..170: the tangent of half the field
\* of view with the angle converted from degrees to radians
TanHalfDegreesTable ==
    <<
      9, 17, 26, 35, 44, 52, 61, 70, 79, 87,
      96, 105, 114, 123, 132, 141, 149, 158, 167, 176,
      185, 194, 203, 213, 222, 231, 240, 249, 259, 268,
      277, 287, 296, 306, 315, 325, 335, 344, 354, 364,
      374, 384, 394, 404, 414, 424, 435, 445, 456, 466,
      477, 488, 499, 510, 521, 532, 543, 554, 566, 577,
      589, 601, 613, 625, 637, 649, 662, 675, 687, 700,
      713, 727, 740, 754, 767, 781, 795, 810, 824, 839,
      854, 869, 885, 900, 916, 933, 949, 966, 983, 1000,
      1018, 1036, 1054, 1072, 1091, 1111, 1130, 1150, 1171, 1192,
      1213, 1235, 1257, 1280, 1303, 1327, 1351, 1376, 1402, 1428,
      1455, 1483, 1511, 1540, 1570, 1600, 1632, 1664, 1698, 1732,
      1767, 1804, 1842, 1881, 1921, 1963, 2006, 2050, 2097, 2145,
      2194, 2246, 2300, 2356, 2414, 2475, 2539, 2605, 2675, 2747,
      2824, 2904, 2989, 3078, 3172, 3271, 3376, 3487, 3606, 3732,
      3867, 4011, 4165, 4331, 4511, 4705, 4915, 5145, 5396, 5671,
      5976, 6314, 6691, 7115, 7596, 8144, 8777, 9514, 10385, 11430
    >>

\* |position - target| * tan(fovy/2 converted to radians), in hundredths
ConvertedTargetDistance(c) ==
    Quot(Magnitude(VSub(c.position, c.target))
             * TanHalfDegreesTable[c.camera.fovy \div 10], 1000)

\* C17: a pan sample with pointer delta (dx, dy) on a perspective camera
\* decreases pan_offset.x by 2*dx*target_distance/screen_height and
\* pan_offset.y by 2*dy*target_distance/screen_height, with target_distance =
\* |position - target| * tan(fovy/2 converted from degrees to radians).
C17_PanDistance ==
    PanSample(orbit) =>
        \A p \in Pointers :
            LET c1     == [orbit EXCEPT !.pan_end = p]
                delta  == PanDelta(c1)
                panned == pan(c1, delta)
                td     == ConvertedTargetDistance(orbit)
            IN  /\ panned.pan_offset.x
                     = NumSub(orbit.pan_offset.x,
                              Num(Quot(2 * delta.x * td, orbit.screen_height)))
                /\ panned.pan_offset.y
                     = NumSub(orbit.pan_offset.y,
                              Num(Quot(2 * delta.y * td, orbit.screen_height)))
                /\ panned.pan_offset.z = orbit.pan_offset.z

\* C18: a rotating move that finds a pan_offset pending commits both in one
\* update(): the spherical coordinates come from position - target with the
\* target before the pan, target moves by pan_offset, position is the new
\* target plus the rotated offset, and the rotated offset is what it would be
\* with no pan pending, at the same radius.
C18_RotateAboutPannedTarget ==
    /\ ~orbit.panicked
    /\ orbit.state = "Rotating"
    /\ orbit.pan_offset # Vector3Zero
    => \A p \in Pointers :
           LET c       == handle_mouse_move(orbit, p.x, p.y)
               unpanned == handle_mouse_move([orbit EXCEPT !.pan_offset = Vector3Zero],
                                             p.x, p.y)
               from    == FromVec3(VSub(orbit.position, orbit.target))
               delta   == RotateDelta([orbit EXCEPT !.rotate_end = p])
               rotated == Spherical(from.radius,
                              ClampAng(AngSub(from.phi,
                                              DragAngle(delta.y, orbit.screen_height)),
                                       epsilon, AngSub(PI, epsilon)),
                              AngSub(from.theta, DragAngle(delta.x, orbit.screen_width)))
           IN  /\ c.spherical = rotated
               /\ c.target = VAdd(orbit.target, orbit.pan_offset)
               /\ c.position = VAdd(c.target, ToVec3(rotated))
               /\ VSub(c.position, c.target) = VSub(unpanned.position, unpanned.target)
               /\ Radius2(c) = Radius2(orbit)

\* a rotate drag from (0, 0) to (200, 150) has orbited the camera about the
\* point that pan_left(1.0) moved the target to
C18_Witness ==
    /\ orbit.state = "Rotating"
    /\ orbit.rotate_start = Some(Vec2(200, 150))
    /\ orbit.target = Vec3(Num(-100), Num(0), Num(0))
    /\ orbit.spherical = Spherical(500, epsilon, Ang(-1, 0))
    /\ orbit.position = Vec3(<<-100, -500, 0>>, <<0, 0, 500>>, Num(0))
    /\ orbit.pan_offset = Vector3Zero

AnchorsCurrent(c) ==
    /\ c.rotate_start = None \/ c.rotate_start = Some(c.rotate_end)
    /\ c.pan_start = None \/ c.pan_start = Some(c.pan_end)

\* C19 as stated: in every reachable state rotate_start is None or equal to
\* rotate_end, and pan_start is None or equal to pan_end.
C19_Original == AnchorsCurrent(orbit)

\* C19 (amended): in every reachable state in which no call has panicked,
\* rotate_start is None or equal to rotate_end and pan_start is None or equal
\* to pan_end; the rotate anchor is so in every reachable state, and after a
\* panic in pan() the pan anchor is None or the pointer of the sample before.
C19_AnchorsCurrent ==
    /\ ~orbit.panicked => AnchorsCurrent(orbit)
    /\ orbit.rotate_start = None \/ orbit.rotate_start = Some(orbit.rotate_end)
    /\ orbit.panicked =>
         /\ orbit.state = "Panning"
         /\ ~IsPerspective(orbit.camera)
         /\ orbit.pan_start = None \/ orbit.pan_start[1] \in Pointers

\* both anchors are held at once, each at the last pointer its own gesture
\* saw: a rotate sample at (200, 150), then a pan sample at (0, 0)
C19_Witness ==
    /\ ~orbit.panicked
    /\ orbit.rotate_start = Some(Vec2(200, 150))
    /\ orbit.rotate_end = Vec2(200, 150)
    /\ orbit.pan_start = Some(Vec2(0, 0))
    /\ orbit.pan_end = Vec2(0, 0)

\* the operation leaves a pending pan_offset pending
KeepsPanPending(before, after) ==
    /\ after.pan_offset = before.pan_offset
    /\ after.target = before.target
    /\ after.position = before.position

\* between public calls spherical_delta is zero and scale is 1, pan_offset
\* is non-zero only after a pan_left/pan_up, which only add to it, and a
\* pending pan_offset is left pending by process_mouse_scroll,
\* handle_mouse_up, camera_params and a move in state None
PanStaysPending(c) ==
    /\ c.spherical_delta = Spherical(0, AngZero, AngZero)
    /\ c.scale = 1
    /\ c.pan_offset # Vector3Zero => npan > 0
    /\ \A d \in PanDistances :
           /\ pan_left(c, d) = [c EXCEPT !.pan_offset.x = NumSub(@, Num(d))]
           /\ pan_up(c, d) = [c EXCEPT !.pan_offset.y = NumSub(@, Num(d))]
    /\ \A y \in ScrollOffsets : KeepsPanPending(c, process_mouse_scroll(c, y))
    /\ KeepsPanPending(c, handle_mouse_up(c))
    /\ camera_params(c).view_matrix.center = c.target
    /\ c.state = "None" =>
           \A p \in Pointers : KeepsPanPending(c, handle_mouse_move(c, p.x, p.y))

\* a move to p commits the pending pan_offset into target, once
AppliedOnce(c, p) ==
    LET m     == handle_mouse_move(c, p.x, p.y)
        again == handle_mouse_move(m, p.x, p.y)
        total == IF c.state = "Panning" THEN PanOffsetOf(c, p, c.pan_offset)
                 ELSE c.pan_offset
    IN  /\ m.target = VAdd(c.target, total)
        /\ m.pan_offset = Vector3Zero
        /\ again.target = m.target
        /\ again.pan_offset = Vector3Zero

\* C20 as stated: the above, and a pending pan_offset is applied to target
\* exactly once by the next handle_mouse_move in state Rotating or Panning.
C20_Original ==
    ~orbit.panicked =>
        /\ PanStaysPending(orbit)
        /\ orbit.pan_offset # Vector3Zero /\ Dispatched(orbit) =>
               \A p \in Pointers : AppliedOnce(orbit, p)

\* C20 (amended): the above, and a pending pan_offset is applied to target
\* exactly once by the next handle_mouse_move in state Rotating, or in state
\* Panning on a perspective camera; on a non-perspective camera the Panning
\* move panics and leaves target and the pending pan_offset as they were.
C20_PendingPan ==
    ~orbit.panicked =>
        /\ PanStaysPending(orbit)
        /\ orbit.pan_offset # Vector3Zero /\ Dispatched(orbit) =>
               \A p \in Pointers :
                   IF orbit.state = "Panning" /\ ~IsPerspective(orbit.camera)
                   THEN LET m == handle_mouse_move(orbit, p.x, p.y)
                        IN  m.panicked /\ KeepsPanPending(orbit, m)
                   ELSE AppliedOnce(orbit, p)

\* a pan_left(1.0) is pending after a scroll in the middle of a rotate drag:
\* the scroll leaves it pending and the next move commits it
C20_Witness ==
    /\ orbit.state = "Rotating"
    /\ orbit.rotate_start = Some(Vec2(200, 150))
    /\ orbit.pan_offset = Vec3(Num(-100), Num(0), Num(0))
    /\ orbit.camera.fovy # ZOOM
    /\ orbit.target = Vector3Zero
    /\ process_mouse_scroll(orbit, 2000).target = Vector3Zero
    /\ handle_mouse_move(orbit, 0, 0).target = Vec3(Num(-100), Num(0), Num(0))

====
